---- MODULE Spec2Model ----
(***************************************************************************)
(* Content recommender (examples/content-recommender/ai-pipeline).         *)
(*                                                                         *)
(* Spec / FairSpec : the retrain/serve protocol of app/main.py and the     *)
(*   lock discipline of Recommender.train / recommend / trending /         *)
(*   get_training_metadata.  A published field holds the id of the train   *)
(*   call that wrote it (0 is the seed train of Recommender.__init__).     *)
(*                                                                         *)
(* SpecStore : ingest and retrain with the ClickHouse store connected or   *)
(*   not, each call of the store succeeding or failing.  Spec starts with  *)
(*   the store unreachable.                                                *)
(*                                                                         *)
(* SpecTrend : Recommender.train on an event list, then trending.          *)
(*                                                                         *)
(* SpecServe : the API calls ingest_event and get_recommendations, one at  *)
(*   a time, with the recommendations table of the store and the retrain.  *)
(*                                                                         *)
(* SpecRec : Recommender.train and Recommender.recommend as functions of   *)
(*   an event list, of the outcome of the ALS fit and of (user_id, top_k), *)
(*   over a catalog of three items.  Scores are exact integers: 1.0 is ONE.*)
(*                                                                         *)
(* SpecAgg : Recommender.train on event lists of every event type, of two  *)
(*   values and of unknown items (_build_user_item_matrix).                *)
(***************************************************************************)
EXTENDS Integers, Sequences, FiniteSets, TLC

\* ----------------------------------------------------------------------- \*
\* Bounds and configuration                                                  \*
\* ----------------------------------------------------------------------- \*

\* Number of POST /events calls that are accepted in a run.
MaxIngests == 3

\* config.RETRAIN_THRESHOLD (environment-configured; a small value is used).
RETRAIN_THRESHOLD == 2

\* config.MIN_INTERACTIONS_FOR_COLLAB (environment-configured; small value).
MIN_INTERACTIONS_FOR_COLLAB == 2

\* Length of the event list handed to Recommender.train in SpecRec.
MaxEvents == 3

\* config.TOP_K (environment-configured; a small value is used).
TOP_K == 2

\* Number of API calls answered in a run of SpecServe.
MaxCalls == 4

\* config.COLLAB_WEIGHT = 0.7, in tenths.
COLLAB_WEIGHT_TENTHS == 7

\* HAS_IMPLICIT: the import of the implicit library succeeded.
HAS_IMPLICIT == TRUE

\* Concurrent callers of ingest_event, and the concurrent reader.
Callers == {"c1", "c2"}

\* Every accepted ingest from the RETRAIN_THRESHOLD-th on can start a thread.
MaxThreads == MaxIngests - RETRAIN_THRESHOLD + 1
Threads == 1..MaxThreads

\* Ids of train calls: 0 is the seed train in __init__, t > 0 is thread t.
TrainIds == 0..MaxThreads
NoTag == -1

\* CATALOG, cut to three items; rating in tenths (8.8 is 88).
CATALOG == << [id |-> "a", rating |-> 88],
              [id |-> "b", rating |-> 86],
              [id |-> "c", rating |-> 86] >>
NItems == Len(CATALOG)
ItemIdx == 0..(NItems - 1)
ItemIdAt(i) == CATALOG[i + 1].id
ItemIds == {ItemIdAt(i) : i \in ItemIdx}
\* self._item_index
ItemIndex(id) == CHOOSE i \in ItemIdx : ItemIdAt(i) = id

\* ----------------------------------------------------------------------- \*
\* State                                                                     \*
\* ----------------------------------------------------------------------- \*

VARIABLES
    cpc,                       \* caller -> position inside ingest_event
    in_memory_events,          \* _in_memory_events (ids of accepted events)
    store_event_calls,         \* number of store.store_event calls
    user_events,               \* ClickHouse table user_events (ids of the rows)
    pending,                   \* caller -> id of the event of its call (0: none)
    returned_at_start,         \* history: thread -> events returned at its start
                               \* (kept until the thread has aggregated); both
                               \* are recorded while ClickHouse is connected
    event_count_since_retrain, \* _event_count_since_retrain
    n_started,                 \* number of threading.Thread(...).start() calls
    trigger_log,               \* history: accepted-ingest count at each trigger
    rpc,                       \* thread -> position inside _retrain_background
    ppos,                      \* thread -> next assignment of the publish block
    events_src,                \* thread -> source of events: "store" | "memory"
    agg,                       \* thread -> event ids folded into its matrix
    new_als,                   \* train id -> "unset" | "model" | "none"
    pubs,                      \* history: thread -> publish blocks completed
    lock,                      \* Recommender._lock owner
    rec,                       \* Recommender fields -> id of the writing train
    rd_pc, rd_op, rd_pos,      \* the reader: position, operation, next read
    cap,                       \* the reader's locals -> id of the train read
    rd_overlap,                \* history: threads aggregating/fitting at call
    client,                    \* store._client: "none" | "up"
    recommendations,           \* ClickHouse table recommendations, FINAL:
                               \* (user_id, item_id) -> newest row
    resp,                      \* SpecServe: the last API call and its response
    trend,                     \* SpecTrend: the last trending call and its result
    ev,                        \* SpecRec: the event list given to train
    st,                        \* SpecRec: the published fields of the Recommender
    last_fit,                  \* SpecRec, history: the fit of the last train call
    out                        \* SpecRec: the last recommend call and its result

vars == <<cpc, in_memory_events, store_event_calls, event_count_since_retrain,
          n_started, trigger_log, rpc, ppos, agg, new_als, pubs, lock, rec,
          rd_pc, rd_op, rd_pos, cap, rd_overlap, ev, st, last_fit, out,
          user_events, pending, returned_at_start, events_src, client,
          recommendations, resp, trend>>

protocolVars == <<cpc, in_memory_events, store_event_calls,
                  event_count_since_retrain,
                  n_started, trigger_log, rpc, ppos, agg, new_als, pubs,
                  lock, rec, rd_pc, rd_op, rd_pos, cap, rd_overlap,
                  user_events, pending, returned_at_start, events_src>>
storeVars == <<client, recommendations>>
serviceVars == <<client, recommendations, resp, trend>>
engineVars == <<ev, st, last_fit, out>>

ingestVars == <<cpc, in_memory_events, store_event_calls,
                event_count_since_retrain, n_started, trigger_log,
                user_events, pending, returned_at_start>>
readerVars == <<rd_pc, rd_op, rd_pos, cap, rd_overlap>>

\* Fields assigned by train() under the lock, in source order.
PublishOrder == <<"als_model", "user_factors", "item_factors",
                  "user_item_matrix", "user_index", "n_users",
                  "n_interactions", "trained_at">>
Fields == {PublishOrder[i] : i \in 1..Len(PublishOrder)}

\* Reads made under the lock by each reader, <<local, field>> in source order.
ReadPlan(op) ==
    CASE op = "recommend" ->
           << <<"user_factor", "user_factors">>,
              <<"item_factors", "item_factors">>,
              <<"user_idx", "user_index">>,
              <<"matrix", "user_item_matrix">>,
              <<"user_index", "user_index">> >>
      [] op = "trending" ->
           << <<"matrix", "user_item_matrix">> >>
      [] op = "get_training_metadata" ->
           << <<"algorithm", "als_model">>,
              <<"n_users", "n_users">>,
              <<"n_interactions", "n_interactions">>,
              <<"trained_at", "trained_at">> >>
ReaderOps == {"recommend", "trending", "get_training_metadata"}
Locals == {"user_factor", "item_factors", "user_idx", "matrix", "user_index",
           "algorithm", "n_users", "n_interactions", "trained_at"}

LockFree == <<"free", 0>>
TrainOwner(t) == <<"train", t>>
ReaderOwner == <<"reader", 0>>

\* Phases of _retrain_background in which the retrain is in flight.
InFlight == {"load", "aggregate", "fit", "acquire", "publish", "metadata",
             "reset"}

\* ----------------------------------------------------------------------- \*
\* Initial state: lifespan() has built the Recommender (seed train done)     \*
\* ----------------------------------------------------------------------- \*

ProtocolInit(seeds) ==
    /\ cpc = [c \in Callers |-> "idle"]
    /\ in_memory_events = << >>
    /\ store_event_calls = 0
    /\ user_events = {}
    /\ pending = [c \in Callers |-> 0]
    /\ returned_at_start = [t \in Threads |-> {}]
    /\ events_src = [t \in Threads |-> "none"]
    /\ event_count_since_retrain = 0
    /\ n_started = 0
    /\ trigger_log = << >>
    /\ rpc = [t \in Threads |-> "idle"]
    /\ ppos = [t \in Threads |-> 0]
    /\ agg = [t \in Threads |-> {}]
    /\ \E seed \in seeds :
          new_als = [i \in TrainIds |-> IF i = 0 THEN seed ELSE "unset"]
    /\ pubs = [t \in Threads |-> 0]
    /\ lock = LockFree
    /\ rec = [f \in Fields |-> 0]
    /\ rd_pc = "idle"
    /\ rd_op = "none"
    /\ rd_pos = 0
    /\ cap = [l \in Locals |-> NoTag]
    /\ rd_overlap = {}

\* The Recommender of SpecRec, not used by the protocol specifications.
NoState == [published |-> FALSE]
NoOut == [status |-> "none"]
NoFit == [outcome |-> "none", replaced_model |-> FALSE]
EngineParked ==
    /\ ev = << >>
    /\ st = NoState
    /\ last_fit = NoFit
    /\ out = NoOut

\* No API call has been answered and the recommendations table is empty.
NoResp == [n |-> 0, op |-> "none"]
ServeParked ==
    /\ recommendations = << >>
    /\ resp = NoResp
    /\ trend = NoOut

\* init_tables: ClickHouse was unreachable (StoreDown) or connected (StoreUp).
StoreDown == client = "none" /\ ServeParked
StoreUp == client = "up" /\ ServeParked

Init ==
    /\ ProtocolInit({"model", "none"})
    /\ EngineParked
    /\ StoreDown

\* ----------------------------------------------------------------------- \*
\* ingest_event / _maybe_trigger_retrain                                     \*
\* ----------------------------------------------------------------------- \*

\* The item ids and event types of the requests.
IngestItemIds == {ItemIdAt(0), "zz"}
IngestEventTypes == {"view_complete", "like"}

\* ingest_event line 220.
AllowedTypes == {"view_start", "view_complete", "rating", "search"}

\* ingest_event lines 217-225: the request passes both checks.
IngestValid(item_id, event_type) ==
    /\ item_id \in ItemIds
    /\ event_type \in AllowedTypes

\* ingest_event, lines 217-229: a valid event is persisted and appended.
IngestAccept(c) ==
    /\ cpc[c] = "idle"
    /\ Len(in_memory_events) < MaxIngests
    /\ \E item_id \in IngestItemIds, event_type \in IngestEventTypes :
          IngestValid(item_id, event_type)
    /\ store_event_calls' = store_event_calls + 1
    /\ \/ /\ client = "up"
          /\ user_events' = user_events \cup {Len(in_memory_events) + 1}
       \/ UNCHANGED user_events
    /\ in_memory_events' = Append(in_memory_events, Len(in_memory_events) + 1)
    /\ pending' = IF client = "up"
                     THEN [pending EXCEPT ![c] = Len(in_memory_events) + 1]
                     ELSE pending
    /\ cpc' = [cpc EXCEPT ![c] = "count"]
    /\ UNCHANGED <<event_count_since_retrain, n_started, trigger_log,
                   returned_at_start>>
    /\ UNCHANGED <<rpc, ppos, agg, new_als, pubs, lock, rec>>
    /\ UNCHANGED readerVars
    /\ UNCHANGED engineVars
    /\ UNCHANGED <<events_src, serviceVars>>

\* ingest_event, lines 217-225: an unknown item or event type raises
\* HTTPException (404 or 422) before anything is stored.
IngestReject_AfterStore(c) ==
    /\ cpc[c] = "idle"
    /\ \E item_id \in IngestItemIds, event_type \in IngestEventTypes :
          ~IngestValid(item_id, event_type)
    /\ store_event_calls' = store_event_calls + 1
    /\ cpc' = [cpc EXCEPT ![c] = "rejected"]
    /\ UNCHANGED <<in_memory_events, event_count_since_retrain, n_started,
                   trigger_log, user_events, pending, returned_at_start>>
    /\ UNCHANGED <<rpc, ppos, agg, new_als, pubs, lock, rec>>
    /\ UNCHANGED readerVars
    /\ UNCHANGED engineVars
    /\ UNCHANGED <<events_src, serviceVars>>
IngestReject(c) ==
    /\ cpc[c] = "idle"
    /\ \E item_id \in IngestItemIds, event_type \in IngestEventTypes :
          ~IngestValid(item_id, event_type)
    /\ cpc' = [cpc EXCEPT ![c] = "rejected"]
    /\ UNCHANGED <<in_memory_events, store_event_calls,
                   event_count_since_retrain, n_started, trigger_log,
                   user_events, pending, returned_at_start>>
    /\ UNCHANGED <<rpc, ppos, agg, new_als, pubs, lock, rec>>
    /\ UNCHANGED readerVars
    /\ UNCHANGED engineVars
    /\ UNCHANGED <<events_src, serviceVars>>

\* The HTTPException leaves ingest_event: the error response is sent.
IngestRaise(c) ==
    /\ cpc[c] = "rejected"
    /\ cpc' = [cpc EXCEPT ![c] = "idle"]
    /\ UNCHANGED <<in_memory_events, store_event_calls,
                   event_count_since_retrain, n_started, trigger_log,
                   user_events, pending, returned_at_start>>
    /\ UNCHANGED <<rpc, ppos, agg, new_als, pubs, lock, rec>>
    /\ UNCHANGED readerVars
    /\ UNCHANGED engineVars
    /\ UNCHANGED <<events_src, serviceVars>>

\* The comparison of _maybe_trigger_retrain.
ShouldRetrain_OffByOne(count) == count > RETRAIN_THRESHOLD
ShouldRetrain(count) == count >= RETRAIN_THRESHOLD

\* Accepted ingests whose increment has been executed.
NCounted == Len(in_memory_events) - Cardinality({c \in Callers : cpc[c] = "count"})

\* The events whose ingest_event call has returned.
Returned ==
    {in_memory_events[i] : i \in 1..Len(in_memory_events)}
       \ {pending[c] : c \in Callers}

\* _maybe_trigger_retrain (lines 109-115) and the return of ingest_event:
\* the increment and the comparison under _retrain_lock, then thread.start().
IngestTrigger(c) ==
    /\ cpc[c] = "count"
    /\ event_count_since_retrain' = event_count_since_retrain + 1
    /\ IF ShouldRetrain(event_count_since_retrain')
         THEN /\ trigger_log' = Append(trigger_log, NCounted + 1)
              /\ n_started' = n_started + 1
              /\ rpc' = [rpc EXCEPT ![n_started + 1] = "load"]
              /\ returned_at_start' =
                    IF client = "up"
                      THEN [returned_at_start EXCEPT ![n_started + 1] = Returned]
                      ELSE returned_at_start
         ELSE UNCHANGED <<trigger_log, n_started, rpc, returned_at_start>>
    /\ cpc' = [cpc EXCEPT ![c] = "idle"]
    /\ pending' = [pending EXCEPT ![c] = 0]
    /\ UNCHANGED <<in_memory_events, store_event_calls, user_events>>
    /\ UNCHANGED <<ppos, agg, new_als, pubs, lock, rec>>
    /\ UNCHANGED readerVars
    /\ UNCHANGED engineVars
    /\ UNCHANGED <<events_src, serviceVars>>

\* ----------------------------------------------------------------------- \*
\* _retrain_background and Recommender.train                                 \*
\* ----------------------------------------------------------------------- \*

\* _retrain_background line 92: events is the list of rows get_all_events
\* returns, or the live in-memory list when that list is empty (no client,
\* a failed query, or no rows).
RetrainLoad_NoFallback(t) ==
    /\ rpc[t] = "load"
    /\ agg' = [agg EXCEPT ![t] = IF client = "up" THEN user_events ELSE {}]
    /\ events_src' = [events_src EXCEPT ![t] = "store"]
    /\ rpc' = [rpc EXCEPT ![t] = "aggregate"]
    /\ UNCHANGED <<ppos, new_als, pubs, lock, rec>>
    /\ UNCHANGED ingestVars
    /\ UNCHANGED readerVars
    /\ UNCHANGED engineVars
    /\ UNCHANGED serviceVars
RetrainLoad(t) ==
    /\ rpc[t] = "load"
    /\ \/ /\ client = "up"
          /\ user_events # {}
          /\ agg' = [agg EXCEPT ![t] = user_events]
          /\ events_src' = [events_src EXCEPT ![t] = "store"]
       \/ /\ events_src' = [events_src EXCEPT ![t] = "memory"]
          /\ UNCHANGED agg
    /\ rpc' = [rpc EXCEPT ![t] = "aggregate"]
    /\ UNCHANGED <<ppos, new_als, pubs, lock, rec>>
    /\ UNCHANGED ingestVars
    /\ UNCHANGED readerVars
    /\ UNCHANGED engineVars
    /\ UNCHANGED serviceVars

\* train line 172: _build_user_item_matrix(events), no lock held; the
\* in-memory list is read as it is now, the rows of the store as loaded.
TrainAggregate_Locked(t) ==
    /\ rpc[t] = "aggregate"
    /\ lock = LockFree
    /\ lock' = TrainOwner(t)
    /\ agg' = [agg EXCEPT ![t] =
                 IF events_src[t] = "memory"
                   THEN {in_memory_events[i] : i \in 1..Len(in_memory_events)}
                   ELSE agg[t]]
    /\ rpc' = [rpc EXCEPT ![t] = "fit"]
    /\ returned_at_start' = [returned_at_start EXCEPT ![t] = {}]
    /\ UNCHANGED <<ppos, new_als, pubs, rec>>
    /\ UNCHANGED <<cpc, in_memory_events, store_event_calls,
                   event_count_since_retrain, n_started, trigger_log,
                   user_events, pending>>
    /\ UNCHANGED readerVars
    /\ UNCHANGED engineVars
    /\ UNCHANGED <<events_src, serviceVars>>
TrainAggregate(t) ==
    /\ rpc[t] = "aggregate"
    /\ agg' = [agg EXCEPT ![t] =
                 IF events_src[t] = "memory"
                   THEN {in_memory_events[i] : i \in 1..Len(in_memory_events)}
                   ELSE agg[t]]
    /\ rpc' = [rpc EXCEPT ![t] = "fit"]
    /\ returned_at_start' = [returned_at_start EXCEPT ![t] = {}]
    /\ UNCHANGED <<ppos, new_als, pubs, lock, rec>>
    /\ UNCHANGED <<cpc, in_memory_events, store_event_calls,
                   event_count_since_retrain, n_started, trigger_log,
                   user_events, pending>>
    /\ UNCHANGED readerVars
    /\ UNCHANGED engineVars
    /\ UNCHANGED <<events_src, serviceVars>>

\* matrix.nnz, the number of distinct (user, item) pairs of the events: in
\* the protocol specifications the first two accepted events are on the same
\* pair and every later event is on a new pair.
PairOf(e) == IF e <= 2 THEN 1 ELSE e
Nnz(t) == Cardinality({PairOf(e) : e \in agg[t]})

\* train lines 174-200: the fit is skipped, succeeds, or raises and is caught.
TrainFit_Propagates(t) ==
    /\ rpc[t] = "fit"
    /\ \/ /\ ~(HAS_IMPLICIT /\ Nnz(t) >= MIN_INTERACTIONS_FOR_COLLAB)
          /\ new_als' = [new_als EXCEPT ![t] = "none"]
          /\ rpc' = [rpc EXCEPT ![t] = "acquire"]
       \/ /\ HAS_IMPLICIT /\ Nnz(t) >= MIN_INTERACTIONS_FOR_COLLAB
          /\ new_als' = [new_als EXCEPT ![t] = "model"]
          /\ rpc' = [rpc EXCEPT ![t] = "acquire"]
       \/ /\ HAS_IMPLICIT /\ Nnz(t) >= MIN_INTERACTIONS_FOR_COLLAB
          /\ new_als' = [new_als EXCEPT ![t] = "none"]
          /\ rpc' = [rpc EXCEPT ![t] = "done"]
    /\ UNCHANGED <<ppos, agg, pubs, lock, rec>>
    /\ UNCHANGED ingestVars
    /\ UNCHANGED readerVars
    /\ UNCHANGED engineVars
    /\ UNCHANGED <<events_src, serviceVars>>
TrainFit(t) ==
    /\ rpc[t] = "fit"
    /\ \/ /\ ~(HAS_IMPLICIT /\ Nnz(t) >= MIN_INTERACTIONS_FOR_COLLAB)
          /\ new_als' = [new_als EXCEPT ![t] = "none"]
       \/ /\ HAS_IMPLICIT /\ Nnz(t) >= MIN_INTERACTIONS_FOR_COLLAB
          /\ new_als' = [new_als EXCEPT ![t] = "model"]
       \/ /\ HAS_IMPLICIT /\ Nnz(t) >= MIN_INTERACTIONS_FOR_COLLAB
          /\ new_als' = [new_als EXCEPT ![t] = "none"]
    /\ rpc' = [rpc EXCEPT ![t] = "acquire"]
    /\ UNCHANGED <<ppos, agg, pubs, lock, rec>>
    /\ UNCHANGED ingestVars
    /\ UNCHANGED readerVars
    /\ UNCHANGED engineVars
    /\ UNCHANGED <<events_src, serviceVars>>

\* train line 202: with self._lock.
TrainAcquire_NoLock(t) ==
    /\ rpc[t] = "acquire"
    /\ rpc' = [rpc EXCEPT ![t] = "publish"]
    /\ ppos' = [ppos EXCEPT ![t] = 1]
    /\ UNCHANGED <<agg, new_als, pubs, lock, rec>>
    /\ UNCHANGED ingestVars
    /\ UNCHANGED readerVars
    /\ UNCHANGED engineVars
    /\ UNCHANGED <<events_src, serviceVars>>
TrainAcquire(t) ==
    /\ rpc[t] = "acquire"
    /\ lock = LockFree
    /\ lock' = TrainOwner(t)
    /\ rpc' = [rpc EXCEPT ![t] = "publish"]
    /\ ppos' = [ppos EXCEPT ![t] = 1]
    /\ UNCHANGED <<agg, new_als, pubs, rec>>
    /\ UNCHANGED ingestVars
    /\ UNCHANGED readerVars
    /\ UNCHANGED engineVars
    /\ UNCHANGED <<events_src, serviceVars>>

\* train lines 203-210: one assignment; the last one leaves the with block.
TrainPublish(t) ==
    /\ rpc[t] = "publish"
    /\ rec' = [rec EXCEPT ![PublishOrder[ppos[t]]] = t]
    /\ IF ppos[t] = Len(PublishOrder)
         THEN /\ ppos' = [ppos EXCEPT ![t] = 0]
              /\ rpc' = [rpc EXCEPT ![t] = "metadata"]
              /\ pubs' = [pubs EXCEPT ![t] = pubs[t] + 1]
              /\ lock' = IF lock = TrainOwner(t) THEN LockFree ELSE lock
         ELSE /\ ppos' = [ppos EXCEPT ![t] = ppos[t] + 1]
              /\ UNCHANGED <<rpc, pubs, lock>>
    /\ UNCHANGED <<agg, new_als>>
    /\ UNCHANGED ingestVars
    /\ UNCHANGED readerVars
    /\ UNCHANGED engineVars
    /\ UNCHANGED <<events_src, serviceVars>>

\* _retrain_background lines 96-101: get_training_metadata() and logging.
RetrainMetadata(t) ==
    /\ rpc[t] = "metadata"
    /\ lock = LockFree
    /\ rpc' = [rpc EXCEPT ![t] = "reset"]
    /\ UNCHANGED <<ppos, agg, new_als, pubs, lock, rec>>
    /\ UNCHANGED ingestVars
    /\ UNCHANGED readerVars
    /\ UNCHANGED engineVars
    /\ UNCHANGED <<events_src, serviceVars>>

\* _retrain_background lines 103-104: the counter is reset under _retrain_lock.
RetrainReset(t) ==
    /\ rpc[t] = "reset"
    /\ event_count_since_retrain' = 0
    /\ rpc' = [rpc EXCEPT ![t] = "done"]
    /\ UNCHANGED <<cpc, in_memory_events, store_event_calls, n_started,
                   trigger_log, user_events, pending, returned_at_start>>
    /\ UNCHANGED <<ppos, agg, new_als, pubs, lock, rec>>
    /\ UNCHANGED readerVars
    /\ UNCHANGED engineVars
    /\ UNCHANGED <<events_src, serviceVars>>

\* ----------------------------------------------------------------------- \*
\* Readers: recommend, trending, get_training_metadata                       \*
\* ----------------------------------------------------------------------- \*

\* with self._lock of a reader (recommend 219, trending 303, metadata 335).
ReaderCall(op) ==
    /\ rd_pc = "idle"
    /\ lock = LockFree
    /\ lock' = ReaderOwner
    /\ rd_pc' = "reading"
    /\ rd_op' = op
    /\ rd_pos' = 1
    /\ rd_overlap' = {t \in Threads : rpc[t] \in {"aggregate", "fit"}}
    /\ UNCHANGED cap
    /\ UNCHANGED <<rpc, ppos, agg, new_als, pubs, rec>>
    /\ UNCHANGED ingestVars
    /\ UNCHANGED engineVars
    /\ UNCHANGED <<events_src, serviceVars>>

\* One read under the lock; the last one leaves the with block.
ReaderRead ==
    /\ rd_pc = "reading"
    /\ LET plan == ReadPlan(rd_op)
           rd == plan[rd_pos]
       IN  /\ cap' = [cap EXCEPT ![rd[1]] = rec[rd[2]]]
           /\ IF rd_pos = Len(plan)
                THEN /\ rd_pc' = "computed"
                     /\ rd_pos' = 0
                     /\ lock' = LockFree
                ELSE /\ rd_pos' = rd_pos + 1
                     /\ UNCHANGED <<rd_pc, lock>>
    /\ UNCHANGED <<rd_op, rd_overlap>>
    /\ UNCHANGED <<rpc, ppos, agg, new_als, pubs, rec>>
    /\ UNCHANGED ingestVars
    /\ UNCHANGED engineVars
    /\ UNCHANGED <<events_src, serviceVars>>

\* The rest of the reader runs on its locals and returns.
ReaderReturn ==
    /\ rd_pc = "computed"
    /\ rd_pc' = "idle"
    /\ rd_op' = "none"
    /\ cap' = [l \in Locals |-> NoTag]
    /\ rd_overlap' = {}
    /\ UNCHANGED rd_pos
    /\ UNCHANGED <<rpc, ppos, agg, new_als, pubs, lock, rec>>
    /\ UNCHANGED ingestVars
    /\ UNCHANGED engineVars
    /\ UNCHANGED <<events_src, serviceVars>>

\* ----------------------------------------------------------------------- \*
\* Specifications                                                            \*
\* ----------------------------------------------------------------------- \*

Next ==
    \/ \E c \in Callers : IngestAccept(c)
    \/ \E c \in Callers : IngestReject(c)
    \/ \E c \in Callers : IngestRaise(c)
    \/ \E c \in Callers : IngestTrigger(c)
    \/ \E t \in Threads : RetrainLoad(t)
    \/ \E t \in Threads : TrainAggregate(t)
    \/ \E t \in Threads : TrainFit(t)
    \/ \E t \in Threads : TrainAcquire(t)
    \/ \E t \in Threads : TrainPublish(t)
    \/ \E t \in Threads : RetrainMetadata(t)
    \/ \E t \in Threads : RetrainReset(t)
    \/ \E op \in ReaderOps : ReaderCall(op)
    \/ ReaderRead
    \/ ReaderReturn

Spec == Init /\ [][Next]_vars

\* SpecStore: ingest and retrain with ClickHouse connected or not; a call
\* of the store can fail at any time.
InitStore ==
    /\ ProtocolInit({"model", "none"})
    /\ EngineParked
    /\ (StoreUp \/ StoreDown)

NextStore ==
    \/ \E c \in Callers : IngestAccept(c)
    \/ \E c \in Callers : IngestReject(c)
    \/ \E c \in Callers : IngestRaise(c)
    \/ \E c \in Callers : IngestTrigger(c)
    \/ \E t \in Threads : RetrainLoad(t)
    \/ \E t \in Threads : TrainAggregate(t)
    \/ \E t \in Threads : TrainFit(t)
    \/ \E t \in Threads : TrainAcquire(t)
    \/ \E t \in Threads : TrainPublish(t)
    \/ \E t \in Threads : RetrainMetadata(t)
    \/ \E t \in Threads : RetrainReset(t)

SpecStore == InitStore /\ [][NextStore]_vars

\* ----------------------------------------------------------------------- \*
\* The engine: catalog, content index, aggregation, train, recommend         \*
\* ----------------------------------------------------------------------- \*

\* The representation of the score 1.0 (divisible by the divisors that occur).
ONE == 120 * 100

\* self._content_matrix: the cosine similarities of the catalog texts, in
\* tenths: symmetric, 1.0 on the diagonal, values in [0, 1].
ContentTenths == << <<10, 5, 2>>,
                    << 5, 10, 0>>,
                    << 2, 0, 10>> >>
ContentMatrix(i, j) == ContentTenths[i + 1][j + 1] * (ONE \div 10)

\* _EVENT_WEIGHTS.get(event_type, 1.0), in halves.
EventWeight_Unweighted(event_type) == 2
EventWeight(event_type) ==
    CASE event_type = "view_complete" -> 8
      [] event_type = "rating" -> 6
      [] event_type = "view_start" -> 2
      [] event_type = "search" -> 1
      [] OTHER -> 2

Range(f) == {f[x] : x \in DOMAIN f}
Min(a, b) == IF a <= b THEN a ELSE b

\* _build_user_item_matrix, the loop of lines 136-145 over events[1..n]:
\* interactions maps (user_id, item_id) to the summed weight (value is in
\* tenths, so a weight is in twentieths), users lists the users first seen.
RECURSIVE Accumulate_IndexBeforeCheck(_, _)
Accumulate_IndexBeforeCheck(events, n) ==
    IF n = 0
      THEN [interactions |-> << >>, users |-> << >>]
      ELSE LET prev == Accumulate_IndexBeforeCheck(events, n - 1)
               e == events[n]
               key == <<e[1], e[2]>>
               weight == EventWeight(e[3]) * e[4]
               old == IF key \in DOMAIN prev.interactions
                        THEN prev.interactions[key] ELSE 0
               users == IF e[1] \in Range(prev.users)
                          THEN prev.users
                          ELSE Append(prev.users, e[1])
           IN  IF e[2] \notin ItemIds
                 THEN [interactions |-> prev.interactions, users |-> users]
                 ELSE [interactions |->
                          [k \in DOMAIN prev.interactions \cup {key} |->
                              IF k = key THEN old + weight
                                         ELSE prev.interactions[k]],
                       users |-> users]
RECURSIVE Accumulate(_, _)
Accumulate(events, n) ==
    IF n = 0
      THEN [interactions |-> << >>, users |-> << >>]
      ELSE LET prev == Accumulate(events, n - 1)
               e == events[n]
               key == <<e[1], e[2]>>
               weight == EventWeight(e[3]) * e[4]
               old == IF key \in DOMAIN prev.interactions
                        THEN prev.interactions[key] ELSE 0
           IN  IF e[2] \notin ItemIds
                 THEN prev
                 ELSE [interactions |->
                          [k \in DOMAIN prev.interactions \cup {key} |->
                              IF k = key THEN old + weight
                                         ELSE prev.interactions[k]],
                       users |-> IF e[1] \in Range(prev.users)
                                   THEN prev.users
                                   ELSE Append(prev.users, e[1])]

\* _build_user_item_matrix: the csr matrix as a map from (row, column) to the
\* stored weight, and the user index (user_id -> row, from 0).
BuildUserItemMatrix(events) ==
    LET acc == Accumulate(events, Len(events))
        user_index == [u \in Range(acc.users) |->
                          (CHOOSE r \in 1..Len(acc.users) : acc.users[r] = u) - 1]
    IN  [matrix |->
            [rc \in {<<user_index[k[1]], ItemIndex(k[2])>> :
                        k \in DOMAIN acc.interactions} |->
                acc.interactions[<<acc.users[rc[1] + 1], ItemIdAt(rc[2])>>]],
         user_index |-> user_index]

\* matrix.nnz
MatrixNnz(matrix) == Cardinality(DOMAIN matrix)

\* The values a fitted factor takes (one latent dimension).
FactorValues == {-1, 1}

\* What model.fit leaves behind: it raises, or it yields item_factors and
\* one user factor per row of the matrix.
FitOutcomes(user_index) ==
    {[ok |-> FALSE, item_factors |-> << >>, user_factors |-> << >>]}
    \cup {[ok |-> TRUE, item_factors |-> itf, user_factors |-> uf] :
             itf \in {f \in [ItemIdx -> FactorValues] : f[0] = 1},
             uf \in [Range(user_index) -> FactorValues]}

\* train line 178: the fit is attempted.
FitAttempted_NoThreshold(matrix) == HAS_IMPLICIT
FitAttempted(matrix) ==
    HAS_IMPLICIT /\ MatrixNnz(matrix) >= MIN_INTERACTIONS_FOR_COLLAB

\* train lines 172-210: the fields published for an event list and a fit.
Train_ModelSetBeforeFit(events, fit) ==
    LET built == BuildUserItemMatrix(events)
        matrix == built.matrix
        user_index == built.user_index
        attempted == FitAttempted(matrix)
        fitted == attempted /\ fit.ok
    IN  [published |-> TRUE,
         als_model |-> attempted,
         user_factors |-> IF fitted
                            THEN [u \in DOMAIN user_index |->
                                     fit.user_factors[user_index[u]]]
                            ELSE << >>,
         item_factors |-> IF fitted
                            THEN [present |-> TRUE, val |-> fit.item_factors]
                            ELSE [present |-> FALSE, val |-> << >>],
         user_item_matrix |-> matrix,
         user_index |-> user_index,
         n_users |-> Cardinality(DOMAIN user_index),
         n_interactions |-> MatrixNnz(matrix)]
Train_UsersFromFactors(events, fit) ==
    LET built == BuildUserItemMatrix(events)
        matrix == built.matrix
        user_index == built.user_index
        fitted == FitAttempted(matrix) /\ fit.ok
    IN  [published |-> TRUE,
         als_model |-> fitted,
         user_factors |-> IF fitted
                            THEN [u \in DOMAIN user_index |->
                                     fit.user_factors[user_index[u]]]
                            ELSE << >>,
         item_factors |-> IF fitted
                            THEN [present |-> TRUE, val |-> fit.item_factors]
                            ELSE [present |-> FALSE, val |-> << >>],
         user_item_matrix |-> matrix,
         user_index |-> user_index,
         n_users |-> IF fitted THEN Cardinality(DOMAIN user_index) ELSE 0,
         n_interactions |-> MatrixNnz(matrix)]
Train(events, fit) ==
    LET built == BuildUserItemMatrix(events)
        matrix == built.matrix
        user_index == built.user_index
        fitted == FitAttempted(matrix) /\ fit.ok
    IN  [published |-> TRUE,
         als_model |-> fitted,
         user_factors |-> IF fitted
                            THEN [u \in DOMAIN user_index |->
                                     fit.user_factors[user_index[u]]]
                            ELSE << >>,
         item_factors |-> IF fitted
                            THEN [present |-> TRUE, val |-> fit.item_factors]
                            ELSE [present |-> FALSE, val |-> << >>],
         user_item_matrix |-> matrix,
         user_index |-> user_index,
         n_users |-> Cardinality(DOMAIN user_index),
         n_interactions |-> MatrixNnz(matrix)]

\* get_training_metadata: the summary of the published fields s.
GetTrainingMetadata_LabelByLibrary(s) ==
    [algorithm |-> IF HAS_IMPLICIT THEN "ALS+ContentBased" ELSE "ContentBased",
     n_users |-> s.n_users,
     n_items |-> NItems,
     n_interactions |-> s.n_interactions]
GetTrainingMetadata(s) ==
    [algorithm |-> IF HAS_IMPLICIT /\ s.als_model
                     THEN "ALS+ContentBased" ELSE "ContentBased",
     n_users |-> s.n_users,
     n_items |-> NItems,
     n_interactions |-> s.n_interactions]

\* recommend lines 227-231: the items with an entry in the user's row.
Watched_RowZero(s, user_id) ==
    LET row == IF user_id \in DOMAIN s.user_index THEN s.user_index[user_id] ELSE 0
    IN  {ItemIdAt(rc[2]) : rc \in {p \in DOMAIN s.user_item_matrix : p[1] = row}}
Watched_AnyRow(s, user_id) ==
    IF user_id \in DOMAIN s.user_index
      THEN {ItemIdAt(rc[2]) : rc \in DOMAIN s.user_item_matrix}
      ELSE {}
Watched(s, user_id) ==
    IF user_id \in DOMAIN s.user_index
      THEN {ItemIdAt(rc[2]) :
              rc \in {p \in DOMAIN s.user_item_matrix :
                         p[1] = s.user_index[user_id]}}
      ELSE {}

RECURSIVE SumRows(_, _, _)
SumRows(widx, i, n) ==
    IF n = 0 THEN 0
    ELSE SumRows(widx, i, n - 1)
           + (IF (n - 1) \in widx THEN ContentMatrix(n - 1, i) ELSE 0)

\* _content_scores: the mean similarity row of the watched items.
ContentScores_Sum(watched_ids) ==
    LET widx == {ItemIndex(id) : id \in watched_ids \cap ItemIds}
    IN  [i \in ItemIdx |-> SumRows(widx, i, NItems)]
ContentScores(watched_ids) ==
    LET widx == {ItemIndex(id) : id \in watched_ids \cap ItemIds}
        valid == Cardinality(widx)
    IN  [i \in ItemIdx |->
            IF valid > 0 THEN SumRows(widx, i, NItems) \div valid ELSE 0]

SetMin(S) == CHOOSE x \in S : \A y \in S : x <= y
SetMax(S) == CHOOSE x \in S : \A y \in S : x >= y

\* recommend lines 246-250: item_factors @ user_factor, min-max normalized
\* when the range is not empty.
CollabScores(item_factors, user_factor) ==
    LET raw == [i \in ItemIdx |-> item_factors[i] * user_factor * ONE]
        c_min == SetMin(Range(raw))
        c_max == SetMax(Range(raw))
    IN  IF c_max > c_min
          THEN [i \in ItemIdx |-> ((raw[i] - c_min) * ONE) \div (c_max - c_min)]
          ELSE raw

\* recommend lines 270-274: watched items get the score -1.0.
MarkWatched_Skip(final_scores, watched) == final_scores
MarkWatched(final_scores, watched) ==
    [i \in ItemIdx |-> IF ItemIdAt(i) \in watched THEN -ONE ELSE final_scores[i]]

\* np.argpartition(final_scores, -top_k)[-top_k:]: the indices of top_k
\* largest scores, any choice among equal scores ([-0:] is the whole array).
TopIndexSets(final_scores, top_k) ==
    IF top_k = 0
      THEN {ItemIdx}
      ELSE {S \in SUBSET ItemIdx :
              /\ Cardinality(S) = top_k
              /\ \A i \in S, j \in ItemIdx \ S : final_scores[i] >= final_scores[j]}

\* top_indices[np.argsort(...)[::-1]]: descending, any order of equal scores.
DescendingOrders(final_scores, S) ==
    {p \in [1..Cardinality(S) -> S] :
        /\ \A a, b \in 1..Cardinality(S) : a # b => p[a] # p[b]
        /\ \A a, b \in 1..Cardinality(S) :
              a < b => final_scores[p[a]] >= final_scores[p[b]]}

\* round(float(score), 4): the score in units of 0.0001.
Round4(x) == (x * 10 + 6) \div 12

RECURSIVE Records(_, _, _, _)
\* recommend lines 280-294: the records of the indices order[1..n].
Records(final_scores, order, source, n) ==
    IF n = 0 THEN << >>
    ELSE LET before == Records(final_scores, order, source, n - 1)
             idx == order[n]
         IN  IF final_scores[idx] < 0
               THEN before
               ELSE Append(before, [id |-> ItemIdAt(idx),
                                    score |-> Round4(final_scores[idx]),
                                    source |-> source])

\* recommend: the possible returns of recommend(user_id, top_k) on the
\* published fields s.  np.argpartition raises ValueError when top_k
\* exceeds the number of catalog items.
Recommend(s, user_id, top_k) ==
    LET has_user_factor == user_id \in DOMAIN s.user_factors
        item_factors == s.item_factors
        watched == Watched(s, user_id)
        n_watched == Cardinality(watched)
        has_collab == /\ HAS_IMPLICIT
                      /\ has_user_factor
                      /\ item_factors.present
                      /\ n_watched >= MIN_INTERACTIONS_FOR_COLLAB
        collab_scores == IF has_collab
                           THEN CollabScores(item_factors.val, s.user_factors[user_id])
                           ELSE [i \in ItemIdx |-> 0]
        content_scores == IF watched # {}
                            THEN ContentScores(watched)
                            ELSE [i \in ItemIdx |-> 0]
        blended ==
            IF has_collab
              THEN [i \in ItemIdx |->
                      (COLLAB_WEIGHT_TENTHS * collab_scores[i]
                         + (10 - COLLAB_WEIGHT_TENTHS) * content_scores[i]) \div 10]
              ELSE IF watched # {}
                THEN content_scores
                ELSE [i \in ItemIdx |-> (CATALOG[i + 1].rating * ONE) \div 100]
        source == IF has_collab
                    THEN (IF watched # {} THEN "hybrid" ELSE "collaborative")
                    ELSE IF watched # {} THEN "content" ELSE "trending"
        final_scores == MarkWatched(blended, watched)
    IN  IF top_k > NItems
          THEN {[status |-> "error", user_id |-> user_id, top_k |-> top_k,
                 source |-> source, results |-> << >>]}
          ELSE {[status |-> "ok", user_id |-> user_id, top_k |-> top_k,
                 source |-> source,
                 results |->
                    LET all == Records(final_scores, order, source, Len(order))
                    IN  SubSeq(all, 1, Min(top_k, Len(all)))] :
                  order \in UNION {DescendingOrders(final_scores, S) :
                                     S \in TopIndexSets(final_scores, top_k)}}

\* matrix.sum(axis=0): the sum of the stored entries of each column.
RECURSIVE SumColumn(_, _, _)
SumColumn(matrix, i, n) ==
    IF n = 0 THEN 0
    ELSE SumColumn(matrix, i, n - 1)
           + (IF <<n - 1, i>> \in DOMAIN matrix THEN matrix[<<n - 1, i>>] ELSE 0)
ColumnSums_Count(matrix) ==
    [i \in ItemIdx |-> Cardinality({rc \in DOMAIN matrix : rc[2] = i})]
ColumnSums(matrix) ==
    [i \in ItemIdx |->
        SumColumn(matrix, i, Cardinality({rc[1] : rc \in DOMAIN matrix}))]

\* sorted(CATALOG, key=rating, reverse=True): descending rating, items of
\* equal rating in catalog order (the sort is stable).
SortedCatalog ==
    CHOOSE p \in [1..NItems -> ItemIdx] :
        /\ \A a, b \in 1..NItems : a # b => p[a] # p[b]
        /\ \A a, b \in 1..NItems :
              a < b => \/ CATALOG[p[a] + 1].rating > CATALOG[p[b] + 1].rating
                       \/ /\ CATALOG[p[a] + 1].rating = CATALOG[p[b] + 1].rating
                          /\ p[a] < p[b]

\* trending: the possible returns of trending(top_k) on the published
\* fields s.  np.argpartition raises ValueError when top_k exceeds the
\* number of catalog items; the list built from top_indices is not cut.
Trending(s, top_k) ==
    IF MatrixNnz(s.user_item_matrix) = 0
      THEN {[status |-> "ok", top_k |-> top_k,
             results |-> [n \in 1..Min(top_k, NItems) |->
                            [id |-> ItemIdAt(SortedCatalog[n]),
                             score |-> CATALOG[SortedCatalog[n] + 1].rating * 100,
                             source |-> "trending"]]]}
      ELSE IF top_k > NItems
        THEN {[status |-> "error", top_k |-> top_k, results |-> << >>]}
        ELSE LET item_scores == ColumnSums(s.user_item_matrix)
                 i_min == SetMin(Range(item_scores))
                 i_max == SetMax(Range(item_scores))
             IN  {[status |-> "ok", top_k |-> top_k,
                   results |-> [n \in 1..Len(order) |->
                      [id |-> ItemIdAt(order[n]),
                       score |-> IF i_max > i_min
                                   THEN Round4(((item_scores[order[n]] - i_min) * ONE)
                                                 \div (i_max - i_min))
                                   ELSE 0,
                       source |-> "trending"]]] :
                    order \in UNION {DescendingOrders(item_scores, S) :
                                       S \in TopIndexSets(item_scores, top_k)}}

\* ----------------------------------------------------------------------- \*
\* SpecRec: an event list is built, trained on, and recommend is called      \*
\* ----------------------------------------------------------------------- \*

EventUsers == {"u1", "u2"}
QueryUsers == EventUsers \cup {"u3"}
\* Events (user_id, item_id, event_type, value in tenths); "zz" is no item
\* of the catalog.  u1 views any item, u2 views the first two items.
EngineEvents ==
    {<<"u1", i, "view_complete", 10>> : i \in ItemIds \cup {"zz"}}
    \cup {<<"u2", ItemIdAt(i), "view_complete", 10>> : i \in {0, 1}}
TopKs == 0..(NItems + 1)

ProtocolParked == ProtocolInit({"none"})

InitRec ==
    /\ ProtocolParked
    /\ EngineParked
    /\ StoreDown

\* One more event in the list that train will be called with.
AddEvent(e) ==
    /\ ~st.published
    /\ Len(ev) < MaxEvents
    /\ ev' = Append(ev, e)
    /\ UNCHANGED <<st, last_fit, out>>
    /\ UNCHANGED protocolVars
    /\ UNCHANGED serviceVars

\* Recommender.train(events).
EngineTrain ==
    /\ out = NoOut
    /\ \E fit \in FitOutcomes(BuildUserItemMatrix(ev).user_index) :
          /\ st' = Train(ev, fit)
          /\ last_fit' =
                [outcome |-> IF ~FitAttempted(BuildUserItemMatrix(ev).matrix)
                               THEN "skipped"
                               ELSE IF fit.ok THEN "ok" ELSE "raised",
                 replaced_model |-> st.published /\ st.als_model]
    /\ out' = NoOut
    /\ UNCHANGED ev
    /\ UNCHANGED protocolVars
    /\ UNCHANGED serviceVars

\* Recommender.recommend(user_id, top_k).
EngineRecommend(user_id, top_k) ==
    /\ st.published
    /\ out = NoOut
    /\ out' \in Recommend(st, user_id, top_k)
    /\ UNCHANGED <<ev, st, last_fit>>
    /\ UNCHANGED protocolVars
    /\ UNCHANGED serviceVars

NextRec ==
    \/ \E e \in EngineEvents : AddEvent(e)
    \/ EngineTrain
    \/ \E u \in QueryUsers, k \in TopKs : EngineRecommend(u, k)

SpecRec == InitRec /\ [][NextRec]_vars

\* ----------------------------------------------------------------------- \*
\* SpecAgg: train is called on event lists of every event type               \*
\* ----------------------------------------------------------------------- \*

\* Events (user_id, item_id, event_type, value in tenths): u1 on item a with
\* every event type ("like" is no known type) and two values, u1 on item b,
\* u2 on item a, and both users on "zz", which is no item of the catalog.
AggEvents ==
    {<<"u1", ItemIdAt(0), ty, v>> :
        ty \in {"view_complete", "rating", "view_start", "search", "like"},
        v \in {5, 10}}
    \cup {<<"u1", ItemIdAt(1), "view_start", 10>>,
          <<"u2", ItemIdAt(0), "rating", 30>>,
          <<"u1", "zz", "view_complete", 10>>,
          <<"u2", "zz", "view_complete", 10>>}

NextAgg ==
    \/ \E e \in AggEvents : AddEvent(e)
    \/ EngineTrain

SpecAgg == InitRec /\ [][NextAgg]_vars


\* ----------------------------------------------------------------------- \*
\* SpecTrend: an event list is built, trained on, and trending is called     \*
\* ----------------------------------------------------------------------- \*

\* Events (user_id, item_id, event_type, value in tenths) of two users on
\* the first two items, with different weights, and on "zz", no item of
\* the catalog.
TrendEvents ==
    {<<"u1", ItemIdAt(0), "view_start", 10>>,
     <<"u1", ItemIdAt(1), "view_complete", 10>>,
     <<"u2", ItemIdAt(0), "view_start", 10>>,
     <<"u1", "zz", "view_complete", 10>>}

\* Recommender.trending(top_k).
EngineTrending(top_k) ==
    /\ st.published
    /\ trend = NoOut
    /\ trend' \in Trending(st, top_k)
    /\ UNCHANGED <<client, recommendations, resp>>
    /\ UNCHANGED engineVars
    /\ UNCHANGED protocolVars

NextTrend ==
    \/ \E e \in TrendEvents : AddEvent(e)
    \/ EngineTrain
    \/ \E k \in TopKs : EngineTrending(k)

SpecTrend == InitRec /\ [][NextTrend]_vars

\* ----------------------------------------------------------------------- \*
\* SpecServe: the API in front of the Recommender and the ClickHouse store,  \*
\* one call at a time                                                        \*
\* ----------------------------------------------------------------------- \*

\* The requests: u1 sends events, one of them for "zz", which is no item of
\* the catalog; u1 and the unknown user u3 ask for recommendations, without
\* top_k (0) or with a top_k above the size of the catalog.
ServeEvents ==
    {<<"u1", ItemIdAt(0), "view_complete", 10>>,
     <<"u1", ItemIdAt(1), "view_complete", 10>>,
     <<"u1", "zz", "like", 10>>}
ServeUsers == {"u1", "u3"}
ServeTopKs == {0, NItems + 1}

\* The protocol variables that the calls of SpecServe leave alone.
serveIdle == <<cpc, in_memory_events, store_event_calls, trigger_log, pending,
               returned_at_start, ppos, agg, new_als, pubs, lock, rec,
               rd_pc, rd_op, rd_pos, cap, rd_overlap, events_src>>

\* store.store_event: what the call did.
StoreEventOutcomes == IF client = "none" THEN {"absent"} ELSE {"failed", "ok"}

\* ingest_event, as one call: the checks, store_event, the append to
\* _in_memory_events (ev), _maybe_trigger_retrain and the response.
ApiIngest(e) ==
    /\ st.published
    /\ resp.n < MaxCalls
    /\ IF ~IngestValid(e[2], e[3])
         THEN /\ resp' = [n |-> resp.n + 1, op |-> "ingest_event",
                          status |-> IF e[2] \notin ItemIds THEN 404 ELSE 422,
                          event |-> e, stored |-> "no"]
              /\ UNCHANGED <<ev, user_events, event_count_since_retrain,
                             n_started, rpc>>
         ELSE /\ Len(ev) < MaxEvents
              /\ \E stored \in StoreEventOutcomes :
                    /\ user_events' = IF stored = "ok"
                                        THEN user_events \cup {Len(ev) + 1}
                                        ELSE user_events
                    /\ resp' = [n |-> resp.n + 1, op |-> "ingest_event",
                                status |-> 202, event |-> e, stored |-> stored]
              /\ ev' = Append(ev, e)
              /\ event_count_since_retrain' = event_count_since_retrain + 1
              /\ IF ShouldRetrain(event_count_since_retrain')
                   THEN /\ n_started' = n_started + 1
                        /\ rpc' = [rpc EXCEPT ![n_started + 1] = "load"]
                   ELSE UNCHANGED <<n_started, rpc>>
    /\ UNCHANGED <<st, last_fit, out>>
    /\ UNCHANGED <<client, recommendations, trend>>
    /\ UNCHANGED serveIdle

\* The events of the buffer with the given positions, in buffer order.
RECURSIVE EventsOf(_, _)
EventsOf(ids, n) ==
    IF n = 0 THEN << >>
    ELSE IF n \in ids THEN Append(EventsOf(ids, n - 1), ev[n])
                      ELSE EventsOf(ids, n - 1)

\* store.get_all_events(...) or _in_memory_events: the lists a retrain can
\* be given.
RetrainEvents ==
    {ev} \cup (IF client = "up" /\ user_events # {}
                 THEN {EventsOf(user_events, Len(ev))}
                 ELSE {})

\* _retrain_background, as one step of the thread: load, train, reset.
ServeRetrain(t) ==
    /\ rpc[t] = "load"
    /\ \E events \in RetrainEvents :
          \E fit \in FitOutcomes(BuildUserItemMatrix(events).user_index) :
             /\ st' = Train(events, fit)
             /\ last_fit' =
                   [outcome |-> IF ~FitAttempted(BuildUserItemMatrix(events).matrix)
                                  THEN "skipped"
                                  ELSE IF fit.ok THEN "ok" ELSE "raised",
                    replaced_model |-> st.published /\ st.als_model]
    /\ rpc' = [rpc EXCEPT ![t] = "done"]
    /\ event_count_since_retrain' = 0
    /\ UNCHANGED <<ev, out, user_events, n_started>>
    /\ UNCHANGED serviceVars
    /\ UNCHANGED serveIdle

\* store.get_recommendations(user_id, top_k): [] without a client or when
\* the query raises, else the rows of the user by descending score, at most
\* top_k of them.
StoreGetRecommendations(table, user_id, top_k) ==
    IF client = "none"
      THEN {[how |-> "absent", rows |-> << >>]}
      ELSE LET items == {k[2] : k \in {p \in DOMAIN table : p[1] = user_id}}
               n == Cardinality(items)
               orders ==
                  {p \in [1..n -> items] :
                     /\ \A a, b \in 1..n : a # b => p[a] # p[b]
                     /\ \A a, b \in 1..n :
                          a < b => table[<<user_id, p[a]>>].score
                                     >= table[<<user_id, p[b]>>].score}
           IN  {[how |-> "failed", rows |-> << >>]}
               \cup {[how |-> "ok",
                      rows |-> [i \in 1..Min(top_k, n) |->
                                   table[<<user_id, p[i]>>]]] : p \in orders}

\* store.store_recommendations(user_id, recs): the tables it can leave.
StoreRecommendations(table, user_id, recs) ==
    IF client = "none" \/ recs = << >>
      THEN {table}
      ELSE LET keys == {<<user_id, recs[i].id>> : i \in 1..Len(recs)}
           IN  {table,
                [k \in DOMAIN table \cup keys |->
                    IF k \in keys
                      THEN recs[CHOOSE i \in 1..Len(recs) : recs[i].id = k[2]]
                      ELSE table[k]]}

\* get_recommendations lines 251-257: the response built from cached rows.
CachedResponse(n, user_id, top_k, cached) ==
    [n |-> n, op |-> "get_recommendations", status |-> 200,
     user_id |-> user_id, top_k |-> top_k, from_cache |-> TRUE,
     cache |-> cached.how, recommendations |-> cached.rows]

\* get_recommendations lines 263-273: the response of live inference; an
\* exception of recommend leaves the handler (500).
DirectResponse_StoreFailureRaises(n, how, r) ==
    [n |-> n, op |-> "get_recommendations",
     status |-> IF r.status = "ok" /\ how = "ok" THEN 200 ELSE 500,
     user_id |-> r.user_id, top_k |-> r.top_k, from_cache |-> FALSE,
     cache |-> how,
     recommendations |-> IF how = "ok" THEN r.results ELSE << >>]
DirectResponse(n, how, r) ==
    [n |-> n, op |-> "get_recommendations",
     status |-> IF r.status = "ok" THEN 200 ELSE 500,
     user_id |-> r.user_id, top_k |-> r.top_k, from_cache |-> FALSE,
     cache |-> how, recommendations |-> r.results]

\* get_recommendations(user_id, top_k), as one call.
ApiGetRecommendations(user_id, top_k) ==
    /\ st.published
    /\ resp.n < MaxCalls
    /\ LET k == IF top_k = 0 THEN TOP_K ELSE top_k
       IN  \E cached \in StoreGetRecommendations(recommendations, user_id, k) :
              IF cached.rows # << >>
                THEN /\ resp' = CachedResponse(resp.n + 1, user_id, k, cached)
                     /\ UNCHANGED recommendations
                ELSE \E r \in Recommend(st, user_id, k) :
                        /\ resp' = DirectResponse(resp.n + 1, cached.how, r)
                        /\ IF r.status = "ok"
                             THEN recommendations' \in
                                     StoreRecommendations(recommendations,
                                                          user_id, r.results)
                             ELSE UNCHANGED recommendations
    /\ UNCHANGED <<client, trend>>
    /\ UNCHANGED engineVars
    /\ UNCHANGED protocolVars

\* lifespan: ClickHouse is connected or not; the Recommender is built next.
InitServe ==
    /\ ProtocolParked
    /\ EngineParked
    /\ (StoreUp \/ StoreDown)

\* SEED_INTERACTIONS, cut to one interaction of one seed user.
SEED_INTERACTIONS == << <<"user_seed_1", ItemIdAt(NItems - 1), "view_complete", 10>> >>

\* Recommender(): the seed train of __init__.
ServeSeed ==
    /\ ~st.published
    /\ \E fit \in FitOutcomes(BuildUserItemMatrix(SEED_INTERACTIONS).user_index) :
          st' = Train(SEED_INTERACTIONS, fit)
    /\ UNCHANGED <<ev, last_fit, out>>
    /\ UNCHANGED protocolVars
    /\ UNCHANGED serviceVars

NextServe ==
    \/ ServeSeed
    \/ \E e \in ServeEvents : ApiIngest(e)
    \/ \E t \in Threads : ServeRetrain(t)
    \/ \E u \in ServeUsers, k \in ServeTopKs : ApiGetRecommendations(u, k)

SpecServe == InitServe /\ [][NextServe]_vars


\* Fair scheduling of the retrain threads and of the reader holding the lock:
\* a step that waits for Recommender._lock is taken if the lock is free
\* again and again.
RetrainStep(t) ==
    \/ RetrainLoad(t)
    \/ TrainAggregate(t)
    \/ TrainFit(t)
    \/ TrainPublish(t)
    \/ RetrainReset(t)
RetrainLockStep(t) ==
    \/ TrainAcquire(t)
    \/ RetrainMetadata(t)

FairSpec ==
    /\ Spec
    /\ \A t \in Threads : WF_vars(RetrainStep(t)) /\ SF_vars(RetrainLockStep(t))
    /\ WF_vars(ReaderRead)

\* ----------------------------------------------------------------------- \*
\* Properties of the retrain/serve protocol                                  \*
\* ----------------------------------------------------------------------- \*

\* C1: every read observes one complete published snapshot: the values a
\* reader captures under the lock all come from the same train call, and
\* while a reader holds the lock all published fields come from one train call.
C1_SnapshotConsistency ==
    /\ \A l1, l2 \in Locals :
          (cap[l1] # NoTag /\ cap[l2] # NoTag) => cap[l1] = cap[l2]
    /\ rd_pc = "reading" => \A f, g \in Fields : rec[f] = rec[g]

\* A recommend call has captured the snapshot of train call 1 while the
\* concurrent train call 2 is inside its publish block.
C1_Witness ==
    /\ rd_pc = "computed"
    /\ rd_op = "recommend"
    /\ cap["user_factor"] = 1
    /\ cap["matrix"] = 1
    /\ \E t \in Threads : t # 1 /\ rpc[t] = "publish" /\ ppos[t] > 1

\* C2: when the ingest that made the counter reach RETRAIN_THRESHOLD
\* returns, the counter is 0.
C2_CounterZeroAfterTriggeringIngest ==
    [][\A c \in Callers :
          (cpc[c] = "count" /\ cpc'[c] = "idle" /\ n_started' = n_started + 1)
             => event_count_since_retrain' = 0]_vars

\* C3: no retrain is started before RETRAIN_THRESHOLD ingests are counted,
\* and once exactly RETRAIN_THRESHOLD ingests were accepted and have
\* returned, exactly one retrain has been started.
C3_ExactlyOneRetrainAtThreshold ==
    /\ NCounted < RETRAIN_THRESHOLD => (n_started = 0 /\ trigger_log = << >>)
    /\ (Len(in_memory_events) = RETRAIN_THRESHOLD
          /\ \A c \in Callers : cpc[c] = "idle") => n_started = 1

\* RETRAIN_THRESHOLD ingests from two concurrent callers have returned.
C3_Witness ==
    /\ Len(in_memory_events) = RETRAIN_THRESHOLD
    /\ \A c \in Callers : cpc[c] = "idle"
    /\ n_started = 1
    /\ rpc[1] = "load"

\* C4: between two consecutive retrain triggers at least RETRAIN_THRESHOLD
\* accepted ingests occur.
C4_TriggersSpacedByThreshold ==
    \A i \in 1..(Len(trigger_log) - 1) :
        trigger_log[i + 1] - trigger_log[i] >= RETRAIN_THRESHOLD

\* C5: at most one retrain (event load + Recommender.train) is executing.
C5_AtMostOneRetrainExecuting ==
    Cardinality({t \in Threads :
        rpc[t] \in {"load", "aggregate", "fit", "acquire", "publish"}}) <= 1

\* C6: a retrain that is loading, aggregating, fitting or waiting to publish
\* does not hold the lock shared with the readers, and a read that started
\* while a retrain was aggregating or fitting is computed from values that
\* retrain did not publish.
C6_LockOnlyForPublish ==
    /\ \A t \in Threads :
          rpc[t] \in {"load", "aggregate", "fit", "acquire"}
             => lock # TrainOwner(t)
    /\ rd_pc = "computed" => \A l \in Locals : cap[l] \notin rd_overlap

\* A recommend call that started during the fit of a retrain has finished
\* its reads, from the seed snapshot, while that retrain is still fitting.
C6_Witness ==
    /\ rd_pc = "computed"
    /\ rd_op = "recommend"
    /\ cap["matrix"] = 0
    /\ \E t \in rd_overlap : rpc[t] = "fit"

\* C7: a started retrain eventually finishes, having run the publish block
\* exactly once; the fit, whatever its outcome, is followed by the publish
\* of the same thread and starts no other retrain; and eventually no
\* retrain is in flight.
C7_RetrainRunsToCompletion ==
    /\ \A t \in Threads :
          (rpc[t] # "idle") ~> (rpc[t] = "done" /\ pubs[t] = 1)
    /\ [][\A t \in Threads :
            (rpc[t] = "fit" /\ rpc'[t] # "fit")
               => (rpc'[t] = "acquire" /\ n_started' = n_started)]_vars
    /\ <>[](\A t \in Threads : rpc[t] \notin InFlight)

\* A retrain whose fit raised has finished and published a state without model.
C7_Witness ==
    \E t \in Threads :
        /\ rpc[t] = "done"
        /\ pubs[t] = 1
        /\ new_als[t] = "none"
        /\ Nnz(t) >= MIN_INTERACTIONS_FOR_COLLAB
        /\ rec["als_model"] = t

\* ----------------------------------------------------------------------- \*
\* Properties of recommend                                                   \*
\* ----------------------------------------------------------------------- \*

ResultIds(o) == {o.results[n].id : n \in 1..Len(o.results)}
NonWatched(s, user_id) == ItemIds \ Watched(s, user_id)

\* C8: no item returned by recommend is in the user's watched set (the items
\* with an entry in the user's row of the published interaction matrix).
C8_NoWatchedItemReturned ==
    out.status = "ok" => ResultIds(out) \cap Watched(st, out.user_id) = {}

\* A hybrid answer for a user with watched items: top_k covers the whole
\* catalog and only the non-watched item is returned.
C8_Witness ==
    /\ out.status = "ok"
    /\ out.source = "hybrid"
    /\ out.top_k = NItems
    /\ Watched(st, out.user_id) # {}
    /\ ResultIds(out) = NonWatched(st, out.user_id)
    /\ ResultIds(out) # {}

\* C9: recommend returns at most top_k items, and exactly top_k whenever at
\* least top_k non-watched items exist.
C9_ExactlyTopKWhenAvailable ==
    out.status = "ok" =>
        /\ Len(out.results) <= out.top_k
        /\ Cardinality(NonWatched(st, out.user_id)) >= out.top_k
              => Len(out.results) = out.top_k

\* C10: when top_k exceeds the number of non-watched items, recommend
\* returns without error exactly the non-watched items, each once.
C10_AllAvailableWhenTopKExceeds ==
    (out.status # "none"
       /\ out.top_k > Cardinality(NonWatched(st, out.user_id)))
    => /\ out.status = "ok"
       /\ ResultIds(out) = NonWatched(st, out.user_id)
       /\ Len(out.results) = Cardinality(NonWatched(st, out.user_id))

\* The catalog rating of an item divided by 10, in units of 0.0001.
RatingScore(id) == CATALOG[ItemIndex(id) + 1].rating * 100

\* C11: for a user that is not in the published user index, every record
\* recommend returns is labelled trending and its score is the catalog rating
\* of its item divided by 10, with or without a latent-factor model.
C11_UnknownUserGetsTrending ==
    (out.status = "ok" /\ out.user_id \notin DOMAIN st.user_index)
    => /\ out.source = "trending"
       /\ \A n \in 1..Len(out.results) :
             /\ out.results[n].source = "trending"
             /\ out.results[n].score = RatingScore(out.results[n].id)

\* A user without events is served from a state that holds a fitted model.
C11_Witness ==
    /\ out.status = "ok"
    /\ out.user_id \notin DOMAIN st.user_index
    /\ st.als_model
    /\ DOMAIN st.user_factors # {}
    /\ Len(out.results) = NItems
    /\ out.results[1].source = "trending"

\* The catalog items of the events of a user in the list the state was
\* trained on: the user's watched set.
EventItems(user_id) ==
    {ev[n][2] : n \in {m \in 1..Len(ev) : ev[m][1] = user_id /\ ev[m][2] \in ItemIds}}

\* The mean similarity of item i to a non-empty set of items.
MeanSimilarity(items, i) ==
    SumRows({ItemIndex(w) : w \in items}, i, NItems) \div Cardinality(items)

\* w * collab + (1 - w) * content for item i of a user with a factor.
HybridScore(user_id, i) ==
    (COLLAB_WEIGHT_TENTHS
        * CollabScores(st.item_factors.val, st.user_factors[user_id])[i]
     + (10 - COLLAB_WEIGHT_TENTHS) * MeanSimilarity(EventItems(user_id), i))
    \div 10

\* C12: recommend answers with source hybrid exactly when the state holds
\* item factors and a factor of the user and the user's watched set is not
\* empty and has at least MIN_INTERACTIONS_FOR_COLLAB items; every hybrid
\* record carries the score w * collab + (1 - w) * content.
C12_HybridExactlyWhenCollabAndHistory ==
    out.status # "none" =>
        /\ (out.source = "hybrid")
              <=> (/\ st.item_factors.present
                   /\ out.user_id \in DOMAIN st.user_factors
                   /\ EventItems(out.user_id) # {}
                   /\ Cardinality(EventItems(out.user_id))
                         >= MIN_INTERACTIONS_FOR_COLLAB)
        /\ (out.status = "ok" /\ out.source = "hybrid") =>
              \A n \in 1..Len(out.results) :
                  /\ out.results[n].source = "hybrid"
                  /\ out.results[n].score =
                        Round4(HybridScore(out.user_id,
                                           ItemIndex(out.results[n].id)))

\* A hybrid answer with a record, for a user with exactly the minimum of
\* watched items, from a state in which another user has a factor too.
C12_Witness ==
    /\ out.status = "ok"
    /\ out.source = "hybrid"
    /\ Len(out.results) >= 1
    /\ Cardinality(EventItems(out.user_id)) = MIN_INTERACTIONS_FOR_COLLAB
    /\ \E u \in DOMAIN st.user_factors :
          /\ u # out.user_id
          /\ Cardinality(EventItems(u)) < MIN_INTERACTIONS_FOR_COLLAB

\* C14: for a user with watched items, answered from a state without item
\* factors, every record is labelled content, no watched item is returned,
\* the score of a record is the mean similarity of its item to the watched
\* items, the records are in descending order of that similarity, and no
\* non-watched item left out is more similar than a returned one.
C14_ContentOnlyWithoutModel ==
    (out.status = "ok"
       /\ ~st.item_factors.present
       /\ EventItems(out.user_id) # {})
    => LET seen == EventItems(out.user_id)
           sim(id) == MeanSimilarity(seen, ItemIndex(id))
       IN  /\ out.source = "content"
           /\ \A n \in 1..Len(out.results) :
                 /\ out.results[n].source = "content"
                 /\ out.results[n].id \notin seen
                 /\ out.results[n].score = Round4(sim(out.results[n].id))
           /\ \A a, b \in 1..Len(out.results) :
                 a < b => sim(out.results[a].id) >= sim(out.results[b].id)
           /\ \A r \in ResultIds(out), x \in (ItemIds \ seen) \ ResultIds(out) :
                 sim(r) >= sim(x)

\* u1 has one view_complete event on item a and the fit was skipped;
\* recommend("u1", 2) returns b then c.
C14_Witness ==
    /\ ev = << <<"u1", "a", "view_complete", 10>> >>
    /\ st.published
    /\ ~st.als_model
    /\ out.status = "ok"
    /\ out.user_id = "u1"
    /\ out.top_k = 2
    /\ out.source = "content"
    /\ Len(out.results) = 2
    /\ out.results[1].id = "b"
    /\ out.results[2].id = "c"

\* The rounded score recommend computes for an item the user has not
\* watched, for the source of the answer.
ScoreOf(o, id) ==
    CASE o.source = "trending" -> RatingScore(id)
      [] o.source = "content" ->
           Round4(MeanSimilarity(EventItems(o.user_id), ItemIndex(id)))
      [] OTHER -> Round4(HybridScore(o.user_id, ItemIndex(id)))

\* C15: the records are in descending order of score, records of equal
\* score are in catalog order, and an item left out is never one that has
\* the score of a returned item and comes earlier in the catalog.
C15_DescendingTiesInCatalogOrder ==
    out.status = "ok" =>
        /\ \A a, b \in 1..Len(out.results) :
              a < b =>
                /\ out.results[a].score >= out.results[b].score
                /\ out.results[a].score = out.results[b].score
                      => ItemIndex(out.results[a].id) < ItemIndex(out.results[b].id)
        /\ \A r \in ResultIds(out),
                x \in (ItemIds \ EventItems(out.user_id)) \ ResultIds(out) :
              ScoreOf(out, x) = ScoreOf(out, r) => ItemIndex(r) < ItemIndex(x)

\* ----------------------------------------------------------------------- \*
\* Properties of ingest validation, train and aggregation                    \*
\* ----------------------------------------------------------------------- \*

\* C16: an ingest with an unknown item id or event type is rejected without
\* effect: from its call to its error response the in-memory buffer, the
\* calls to the event store, the retrain counter and the started retrains
\* are left as they were.
C16_RejectedIngestChangesNothing ==
    [][\A c \in Callers :
          (cpc[c] # cpc'[c] /\ "rejected" \in {cpc[c], cpc'[c]})
             => UNCHANGED <<in_memory_events, store_event_calls,
                            event_count_since_retrain, n_started,
                            trigger_log, rpc>>]_vars

\* An ingest is being rejected while the counter is one below the
\* threshold: no retrain was started.
C16_Witness ==
    /\ \E c \in Callers : cpc[c] = "rejected"
    /\ event_count_since_retrain = RETRAIN_THRESHOLD - 1
    /\ Len(in_memory_events) = RETRAIN_THRESHOLD - 1
    /\ store_event_calls = RETRAIN_THRESHOLD - 1
    /\ n_started = 0

\* The users with an event on a catalog item in the event list.
UsersOfEvents == {u \in EventUsers : EventItems(u) # {}}

\* C17: after a train call whose fit raised, the published state has no
\* model, no user factors and no item factors, and holds the matrix and the
\* user index of the events of that call, also when the state before held a
\* model.
C17_FitFailurePublishesWithoutModel ==
    last_fit.outcome = "raised" =>
        /\ st.published
        /\ ~st.als_model
        /\ st.user_factors = << >>
        /\ ~st.item_factors.present
        /\ DOMAIN st.user_index = UsersOfEvents
        /\ \A u \in UsersOfEvents :
              {ItemIdAt(rc[2]) : rc \in {p \in DOMAIN st.user_item_matrix :
                                           p[1] = st.user_index[u]}}
                 = EventItems(u)
        /\ st.n_users = Cardinality(UsersOfEvents)

\* The fit of a train call raised on a state that held a model.
C17_Witness ==
    /\ last_fit.outcome = "raised"
    /\ last_fit.replaced_model
    /\ st.published
    /\ ~st.als_model
    /\ Cardinality(UsersOfEvents) = 2

\* The (user, item) pairs of the events on catalog items: the non-zero
\* entries of the interaction matrix.
PairsOfEvents ==
    {<<ev[n][1], ev[n][2]>> : n \in {m \in 1..Len(ev) : ev[m][2] \in ItemIds}}

\* C18: a published state holds a model only if its matrix has at least
\* MIN_INTERACTIONS_FOR_COLLAB entries; with fewer entries train publishes a
\* state without model and without item factors and the fit is not attempted.
C18_ModelOnlyAboveMinimum ==
    st.published =>
        /\ st.n_interactions = Cardinality(PairsOfEvents)
        /\ st.als_model
              => Cardinality(PairsOfEvents) >= MIN_INTERACTIONS_FOR_COLLAB
        /\ Cardinality(PairsOfEvents) < MIN_INTERACTIONS_FOR_COLLAB
              => /\ ~st.als_model
                 /\ ~st.item_factors.present
                 /\ st.user_factors = << >>
                 /\ last_fit.outcome = "skipped"

\* The event list has MIN_INTERACTIONS_FOR_COLLAB events or more but fewer
\* distinct pairs on catalog items: the fit was skipped.
C18_Witness ==
    /\ st.published
    /\ Len(ev) >= MIN_INTERACTIONS_FOR_COLLAB
    /\ Cardinality(PairsOfEvents) = MIN_INTERACTIONS_FOR_COLLAB - 1
    /\ last_fit.outcome = "skipped"
    /\ ~st.als_model

\* type_multiplier(event_type) in halves: view_complete 4.0, rating 3.0,
\* view_start 1.0, search 0.5, any other type 1.0.
TypeMultiplier(event_type) ==
    IF event_type = "view_complete" THEN 8
    ELSE IF event_type = "rating" THEN 6
    ELSE IF event_type = "search" THEN 1
    ELSE 2

\* The sum of type_multiplier * value over the events ev[1..n] of a pair.
RECURSIVE WeightSum(_, _, _)
WeightSum(user_id, item_id, n) ==
    IF n = 0 THEN 0
    ELSE WeightSum(user_id, item_id, n - 1)
           + (IF ev[n][1] = user_id /\ ev[n][2] = item_id
                THEN TypeMultiplier(ev[n][3]) * ev[n][4] ELSE 0)

\* C19: train completes on every event list, the interaction matrix has an
\* entry exactly for the (user, item) pairs of the events on catalog items,
\* and the entry of a pair is the sum of type_multiplier * value over the
\* events of the pair; events on unknown items add nothing.
C19_EntryIsWeightedSum ==
    st.published =>
        /\ \A pr \in PairsOfEvents : pr[1] \in DOMAIN st.user_index
        /\ DOMAIN st.user_item_matrix =
              {<<st.user_index[pr[1]], ItemIndex(pr[2])>> : pr \in PairsOfEvents}
        /\ \A pr \in PairsOfEvents :
              st.user_item_matrix[<<st.user_index[pr[1]], ItemIndex(pr[2])>>]
                 = WeightSum(pr[1], pr[2], Len(ev))

\* A pair with a view_complete event and an event of unknown type, next to
\* an event on an unknown item.
C19_Witness ==
    /\ st.published
    /\ ev = << <<"u1", "a", "view_complete", 10>>,
               <<"u2", "zz", "view_complete", 10>>,
               <<"u1", "a", "like", 5>> >>
    /\ DOMAIN st.user_item_matrix = {<<0, 0>>}
    /\ st.user_item_matrix[<<0, 0>>] = 90

\* The position in ev of the first event of a user on a catalog item.
FirstValid(user_id) ==
    CHOOSE n \in 1..Len(ev) :
        /\ ev[n][1] = user_id /\ ev[n][2] \in ItemIds
        /\ \A m \in 1..(n - 1) : ~(ev[m][1] = user_id /\ ev[m][2] \in ItemIds)

\* C20: the user index holds exactly the users with an event on a catalog
\* item, numbered from 0 in the order of their first such event; an event
\* list without such an event gives no user and a matrix without entry.
C20_UserIndexFirstSeenOrder ==
    st.published =>
        /\ DOMAIN st.user_index = UsersOfEvents
        /\ {st.user_index[u] : u \in UsersOfEvents}
              = 0..(Cardinality(UsersOfEvents) - 1)
        /\ \A u, v \in UsersOfEvents :
              FirstValid(u) < FirstValid(v) => st.user_index[u] < st.user_index[v]
        /\ PairsOfEvents = {}
              => /\ st.user_index = << >>
                 /\ st.user_item_matrix = << >>
                 /\ st.n_users = 0
                 /\ st.n_interactions = 0

\* u2 comes first in the list, on an unknown item, and gets the second row.
C20_Witness ==
    /\ st.published
    /\ Len(ev) = 3
    /\ ev[1] = <<"u2", "zz", "view_complete", 10>>
    /\ ev[2][1] = "u1" /\ ev[2][2] \in ItemIds
    /\ ev[3][1] = "u2" /\ ev[3][2] \in ItemIds
    /\ st.user_index["u1"] = 0
    /\ st.user_index["u2"] = 1

\* ----------------------------------------------------------------------- \*
\* Properties of the event store and of overlapping retrains                 \*
\* ----------------------------------------------------------------------- \*

EventIds == {in_memory_events[i] : i \in 1..Len(in_memory_events)}
Aggregated == {"fit", "acquire", "publish", "metadata", "reset", "done"}

\* C21: the in-memory buffer holds the accepted events in acceptance order;
\* a retrain uses the rows of the store only when the store returned rows,
\* and a retrain that got no rows trains on the buffer: on all its events,
\* which include every event counted up to the trigger of the retrain.
C21_EmptyHistoryFallsBackToBuffer ==
    /\ Len(in_memory_events) = store_event_calls
    /\ \A i \in 1..Len(in_memory_events) : in_memory_events[i] = i
    /\ \A t \in Threads :
          /\ events_src[t] = "store" => (agg[t] # {} /\ client = "up")
          /\ (rpc[t] \in Aggregated /\ events_src[t] = "memory")
                => /\ agg[t] = 1..Cardinality(agg[t])
                   /\ agg[t] \subseteq EventIds
                   /\ Cardinality(agg[t]) >= trigger_log[t]

\* The store is connected and holds rows, the query of a retrain failed and
\* the retrain has trained on the whole buffer.
C21_Witness ==
    /\ client = "up"
    /\ user_events # {}
    /\ \E t \in Threads :
          /\ rpc[t] = "done"
          /\ events_src[t] = "memory"
          /\ agg[t] = 1..MaxIngests

\* ----------------------------------------------------------------------- \*
\* Properties of the API in front of the store                               \*
\* ----------------------------------------------------------------------- \*

\* The call answered by this step.
Answered(op) == resp'.n # resp.n /\ resp'.op = op

\* C22: no failure or absence of the store reaches the caller.  A valid
\* event is accepted (202), appended to the buffer and counted whatever
\* store_event did; without a client nothing is served from the cache; and
\* a response that is not served from the cache is the outcome of
\* recommender.recommend on the current state: its list, or its exception.
C22_StoreFailureNeverReachesCaller ==
    [][/\ (Answered("ingest_event") /\ IngestValid(resp'.event[2], resp'.event[3]))
          => /\ resp'.status = 202
             /\ ev' = Append(ev, resp'.event)
             /\ \/ event_count_since_retrain' = event_count_since_retrain + 1
                \/ n_started' = n_started + 1
       /\ Answered("get_recommendations")
          => /\ client = "none" => ~resp'.from_cache
             /\ ~resp'.from_cache
                  => \E r \in Recommend(st, resp'.user_id, resp'.top_k) :
                        /\ resp'.status = (IF r.status = "ok" THEN 200 ELSE 500)
                        /\ resp'.recommendations = r.results]_vars

\* The store is connected and holds rows of the user, its query failed, and
\* the response is a list computed by recommend; before that an event was
\* accepted although its insert failed.
C22_Witness ==
    /\ client = "up"
    /\ resp.op = "get_recommendations"
    /\ resp.cache = "failed"
    /\ resp.status = 200
    /\ ~resp.from_cache
    /\ resp.recommendations # << >>
    /\ \E k \in DOMAIN recommendations : k[1] = resp.user_id
    /\ ev # << >>
    /\ user_events = {}

\* C30: a list served by get_recommendations, from the cache or not, holds
\* no item that the user has watched in the state published at that time.
C30_ServedListsOmitWatchedItems ==
    [][(Answered("get_recommendations") /\ resp'.status = 200)
          => \A i \in 1..Len(resp'.recommendations) :
                resp'.recommendations[i].id \notin Watched(st, resp'.user_id)]_vars

\* ----------------------------------------------------------------------- \*
\* Properties of repeated training and of the training metadata              \*
\* ----------------------------------------------------------------------- \*

\* C23: a train call on the event list of the train call before it publishes
\* the same n_users and n_interactions, the same interaction matrix and the
\* same user index, whatever the two fits returned.
C23_TrainIdempotentOnSameEvents ==
    [][(st.published /\ st'.published /\ ev' = ev)
          => /\ GetTrainingMetadata(st').n_users = GetTrainingMetadata(st).n_users
             /\ GetTrainingMetadata(st').n_interactions
                  = GetTrainingMetadata(st).n_interactions
             /\ st'.user_item_matrix = st.user_item_matrix
             /\ st'.user_index = st.user_index]_vars

\* A second train call on the same events of two users: its fit succeeded
\* and the state it replaced held a model too.
C23_Witness ==
    /\ st.published
    /\ last_fit.replaced_model
    /\ last_fit.outcome = "ok"
    /\ st.als_model
    /\ st.n_users = Cardinality(EventUsers)
    /\ st.n_interactions = MaxEvents

\* C25: when the raw collaborative scores of a hybrid answer are all equal,
\* the collaborative part of the blend is zero: every record has the score
\* (1 - w) * content of its item, and no non-watched item is dropped, so the
\* answer has top_k records or all non-watched items.
C25_CollapsedRangeIsZeroVector ==
    (/\ out.status = "ok"
     /\ out.source \in {"hybrid", "collaborative"}
     /\ \A i, j \in ItemIdx : st.item_factors.val[i] = st.item_factors.val[j])
    => /\ \A n \in 1..Len(out.results) :
             out.results[n].score =
                Round4(((10 - COLLAB_WEIGHT_TENTHS)
                          * ContentScores(Watched(st, out.user_id))
                               [ItemIndex(out.results[n].id)]) \div 10)
       /\ Len(out.results)
            = Min(out.top_k, Cardinality(NonWatched(st, out.user_id)))

\* C26: the metadata read with a published state agrees with it: n_users is
\* the size of the user index, n_interactions the number of stored entries
\* of the matrix, the label is ALS+ContentBased exactly when a model is
\* present, and the user factors cover exactly the users of the index when a
\* model is present and are empty otherwise.
C26_MetadataAgreesWithSnapshot ==
    st.published =>
        LET meta == GetTrainingMetadata(st)
        IN  /\ meta.n_users = Cardinality(DOMAIN st.user_index)
            /\ meta.n_interactions = MatrixNnz(st.user_item_matrix)
            /\ meta.n_items = NItems
            /\ (meta.algorithm = "ALS+ContentBased") <=> st.als_model
            /\ meta.algorithm \in {"ALS+ContentBased", "ContentBased"}
            /\ st.als_model => DOMAIN st.user_factors = DOMAIN st.user_index
            /\ st.als_model <=> st.item_factors.present
            /\ ~st.als_model => st.user_factors = << >>

\* The metadata of a state with a model and factors for two users.
C26_Witness ==
    /\ st.published
    /\ st.als_model
    /\ GetTrainingMetadata(st).algorithm = "ALS+ContentBased"
    /\ GetTrainingMetadata(st).n_users = 2
    /\ DOMAIN st.user_factors = EventUsers
    /\ Len(ev) = MaxEvents

\* ----------------------------------------------------------------------- \*
\* Properties of overlapping retrains and of the retrain accounting          \*
\* ----------------------------------------------------------------------- \*

\* No ingest_event call and no retrain is in flight.
Quiescent ==
    /\ \A c \in Callers : cpc[c] = "idle"
    /\ \A t \in Threads : rpc[t] \in {"idle", "done"}

\* C27: publications follow the order of the loads: the fields of the
\* Recommender are never overwritten by a retrain that trained on fewer
\* events than the retrain that wrote them, and once every retrain has
\* finished they are those of the retrain that trained on the most events.
C27_PublicationFollowsLoadOrder ==
    /\ \A t \in Threads :
          (rpc[t] = "publish" /\ ppos[t] > 1 /\ rec["user_item_matrix"] # 0)
             => agg[rec["user_item_matrix"]] \subseteq agg[t]
    /\ (Quiescent /\ n_started > 0)
          => \A t \in Threads :
                rpc[t] = "done" => agg[t] \subseteq agg[rec["user_item_matrix"]]

\* C28: every accepted ingest counts toward exactly one retrain trigger:
\* when nothing is in flight, the retrains started are one for every
\* RETRAIN_THRESHOLD accepted ingests and the counter holds the remainder;
\* at any time at least that many retrains have been started.
C28_EveryIngestCountsOnce ==
    /\ (\A c \in Callers : cpc[c] = "idle")
          => n_started >= Len(in_memory_events) \div RETRAIN_THRESHOLD
    /\ Quiescent
          => /\ n_started = Len(in_memory_events) \div RETRAIN_THRESHOLD
             /\ event_count_since_retrain
                  = Len(in_memory_events) % RETRAIN_THRESHOLD

\* C29: the events a retrain trains on include every event whose
\* ingest_event call had returned when the retrain was started.
C29_ReturnedEventsAreTrainedOn ==
    [][\A t \in Threads :
          (rpc[t] = "aggregate" /\ rpc'[t] = "fit")
             => returned_at_start[t] \subseteq agg'[t]]_vars

\* ----------------------------------------------------------------------- \*
\* Properties of trending                                                    \*
\* ----------------------------------------------------------------------- \*

\* The sum of type_multiplier * value over the events ev[1..n] on an item.
RECURSIVE EventColumnSum(_, _)
EventColumnSum(item_id, n) ==
    IF n = 0 THEN 0
    ELSE EventColumnSum(item_id, n - 1)
           + (IF ev[n][2] = item_id
                THEN TypeMultiplier(ev[n][3]) * ev[n][4] ELSE 0)

TrendIds == {trend.results[n].id : n \in 1..Len(trend.results)}

\* C24: every record of trending has the source trending.  With an
\* interaction matrix without entries the records are the first top_k items
\* in descending catalog rating, each with the score rating / 10; otherwise
\* the records are in descending order of the column sum of their item, and
\* no item left out has a larger column sum than a returned one.
C24_TrendingRanksByRatingOrColumnSum ==
    trend.status = "ok" =>
        /\ \A n \in 1..Len(trend.results) : trend.results[n].source = "trending"
        /\ PairsOfEvents = {}
              => /\ Len(trend.results) = Min(trend.top_k, NItems)
                 /\ \A n \in 1..Len(trend.results) :
                       trend.results[n].score = RatingScore(trend.results[n].id)
                 /\ \A a, b \in 1..Len(trend.results) :
                       a < b => RatingScore(trend.results[a].id)
                                  >= RatingScore(trend.results[b].id)
                 /\ \A id \in ItemIds \ TrendIds, n \in 1..Len(trend.results) :
                       RatingScore(id) <= RatingScore(trend.results[n].id)
        /\ PairsOfEvents # {}
              => /\ \A a, b \in 1..Len(trend.results) :
                       a < b => EventColumnSum(trend.results[a].id, Len(ev))
                                  >= EventColumnSum(trend.results[b].id, Len(ev))
                 /\ \A id \in ItemIds \ TrendIds, n \in 1..Len(trend.results) :
                       EventColumnSum(id, Len(ev))
                          <= EventColumnSum(trend.results[n].id, Len(ev))
                 /\ \A a, b \in 1..Len(trend.results) :
                       a < b => trend.results[a].score >= trend.results[b].score

\* trending on a matrix with entries: the second item of the catalog, with
\* the larger column sum, comes before the first item, on which both users
\* have an event.
C24_Witness ==
    /\ trend.status = "ok"
    /\ PairsOfEvents # {}
    /\ Len(trend.results) = 2
    /\ EventColumnSum(trend.results[1].id, Len(ev))
         > EventColumnSum(trend.results[2].id, Len(ev))
    /\ EventColumnSum(trend.results[2].id, Len(ev)) > 0
    /\ trend.results[1].id = ItemIdAt(1)
    /\ trend.results[2].id = ItemIdAt(0)
    /\ Cardinality(PairsOfEvents) = MaxEvents

====
